---- MODULE Spec2Model ----
(***************************************************************************)
(* Model of golang.org/x/net/http/httpproxy (proxy.go): Config.ProxyForURL *)
(* and Config.useProxy, together with the string and address helpers they  *)
(* call.  A Go string is a sequence of one-character strings; Go indices   *)
(* are 0-based and "not found" is -1, as in the strings package.           *)
(***************************************************************************)
EXTENDS Integers, Sequences, FiniteSets, TLC

\* ------------------------------------------------------------------ bounds
\* longest host / NO_PROXY entry enumerated exhaustively
MaxLen == 3
\* longest proxy string enumerated exhaustively
MaxProxyLen == 2
\* most comma-separated entries in an enumerated NO_PROXY list
MaxPatterns == 2

\* ------------------------------------------------- strings package helpers
\* s[a:b]
Slice(s, a, b) == SubSeq(s, a + 1, b)

\* s[k]
At(s, k) == s[k + 1]

\* strings.LastIndex(s, c) for a one-byte c
LastIndex(s, c) ==
    IF \E k \in 1..Len(s) : s[k] = c
    THEN (CHOOSE k \in 1..Len(s) : s[k] = c /\ \A m \in (k + 1)..Len(s) : s[m] # c) - 1
    ELSE -1

\* strings.Index / bytealg.IndexByteString(s, c)
IndexByte(s, c) ==
    IF \E k \in 1..Len(s) : s[k] = c
    THEN (CHOOSE k \in 1..Len(s) : s[k] = c /\ \A m \in 1..(k - 1) : s[m] # c) - 1
    ELSE -1

HasPrefix(s, pre) == Len(s) >= Len(pre) /\ SubSeq(s, 1, Len(pre)) = pre

HasSuffix(s, suf) ==
    Len(s) >= Len(suf) /\ SubSeq(s, Len(s) - Len(suf) + 1, Len(s)) = suf

UpperLetters ==
    <<"A", "B", "C", "D", "E", "F", "G", "H", "I", "J", "K", "L", "M",
      "N", "O", "P", "Q", "R", "S", "T", "U", "V", "W", "X", "Y", "Z">>

LowerLetters ==
    <<"a", "b", "c", "d", "e", "f", "g", "h", "i", "j", "k", "l", "m",
      "n", "o", "p", "q", "r", "s", "t", "u", "v", "w", "x", "y", "z">>

LowerOf(c) ==
    IF \E k \in 1..Len(UpperLetters) : UpperLetters[k] = c
    THEN LowerLetters[CHOOSE k \in 1..Len(UpperLetters) : UpperLetters[k] = c]
    ELSE c

\* strings.ToLower
ToLower(s) == [k \in 1..Len(s) |-> LowerOf(s[k])]

IsSpace(c) == c = " "

\* strings.TrimSpace
TrimSpace(s) ==
    IF \A k \in 1..Len(s) : IsSpace(s[k])
    THEN << >>
    ELSE LET first == CHOOSE k \in 1..Len(s) :
                          ~IsSpace(s[k]) /\ \A m \in 1..(k - 1) : IsSpace(s[m])
             last == CHOOSE k \in 1..Len(s) :
                          ~IsSpace(s[k]) /\ \A m \in (k + 1)..Len(s) : IsSpace(s[m])
         IN  SubSeq(s, first, last)

RECURSIVE Split(_, _)
\* strings.Split(s, sep) for a one-byte sep
Split(s, sep) ==
    LET k == IndexByte(s, sep)
    IN  IF k < 0 THEN << s >>
        ELSE << Slice(s, 0, k) >> \o Split(Slice(s, k + 1, Len(s)), sep)

IsDigit(c) == c \in {"0", "1", "2", "3", "4", "5", "6", "7", "8", "9"}

IsLetter(c) ==
    \E k \in 1..Len(LowerLetters) : LowerLetters[k] = c \/ UpperLetters[k] = c

\* ------------------------------------------------------ net package helpers
HexDigits ==
    <<"0", "1", "2", "3", "4", "5", "6", "7", "8", "9", "a", "b", "c", "d", "e", "f">>

HexVal(c) == (CHOOSE k \in 1..16 : HexDigits[k] = LowerOf(c)) - 1

\* number of leading bytes of s that lie in the set D
PrefixLen(s, D) ==
    IF \A k \in 1..Len(s) : s[k] \in D THEN Len(s)
    ELSE (CHOOSE k \in 1..Len(s) : s[k] \notin D /\ \A m \in 1..(k - 1) : s[m] \in D) - 1

Range(f) == {f[k] : k \in DOMAIN f}

HexBytes == Range(HexDigits) \cup {"A", "B", "C", "D", "E", "F"}

RECURSIVE NumValue(_, _)
\* value of a digit string in the given base (net.dtoi, net.xtoi)
NumValue(s, base) ==
    IF Len(s) = 0 THEN 0
    ELSE NumValue(SubSeq(s, 1, Len(s) - 1), base) * base + HexVal(s[Len(s)])

\* the nil IP
NilIP == << >>

v4InV6Prefix == <<0, 0, 0, 0, 0, 0, 0, 0, 0, 0, 255, 255>>

\* net.parseIPv4: four decimal fields 0..255 separated by dots; the result is
\* the 16-byte form net.IPv4 builds
parseIPv4(s) ==
    LET f == Split(s, ".")
        fieldOk(x) == Len(x) > 0 /\ Len(x) <= 6
                      /\ (\A k \in 1..Len(x) : IsDigit(x[k]))
                      /\ NumValue(x, 10) <= 255
    IN  IF Len(f) = 4 /\ \A k \in 1..4 : fieldOk(f[k])
        THEN v4InV6Prefix \o [k \in 1..4 |-> NumValue(f[k], 10)]
        ELSE NilIP

Zeros(n) == [k \in 1..n |-> 0]

RECURSIVE v6Loop(_, _, _)
\* the for loop of net.parseIPv6: s is the unparsed rest, ip the bytes
\* written so far (i = Len(ip)), ellipsis the index of "::" or -1
v6Loop(s, ip, ellipsis) ==
    LET fail == [ok |-> FALSE, s |-> s, ip |-> ip, ellipsis |-> ellipsis]
        stop(s1, ip1, e1) == [ok |-> TRUE, s |-> s1, ip |-> ip1, ellipsis |-> e1]
    IN  IF Len(ip) >= 16 THEN stop(s, ip, ellipsis)
        ELSE
        LET c == PrefixLen(s, HexBytes)
            n == IF c <= 6 THEN NumValue(Slice(s, 0, c), 16) ELSE 65536
        IN  IF c = 0 \/ n > 65535 THEN fail
            ELSE IF c < Len(s) /\ At(s, c) = "."
            THEN IF ellipsis < 0 /\ Len(ip) # 12 THEN fail
                 ELSE IF Len(ip) + 4 > 16 THEN fail
                 ELSE LET ip4 == parseIPv4(s)
                      IN  IF ip4 = NilIP THEN fail
                          ELSE stop(<< >>, ip \o Slice(ip4, 12, 16), ellipsis)
            ELSE
            LET ip2 == ip \o << n \div 256, n % 256 >>
                s2 == Slice(s, c, Len(s))
            IN  IF Len(s2) = 0 THEN stop(s2, ip2, ellipsis)
                ELSE IF At(s2, 0) # ":" \/ Len(s2) = 1 THEN fail
                ELSE
                LET s3 == Tail(s2)
                IN  IF At(s3, 0) = ":"
                    THEN IF ellipsis >= 0 THEN fail
                         ELSE IF Len(s3) = 1 THEN stop(<< >>, ip2, Len(ip2))
                         ELSE v6Loop(Tail(s3), ip2, Len(ip2))
                    ELSE v6Loop(s3, ip2, ellipsis)

\* net.parseIPv6
parseIPv6(s) ==
    LET lead == Len(s) >= 2 /\ At(s, 0) = ":" /\ At(s, 1) = ":"
        s0 == IF lead THEN Slice(s, 2, Len(s)) ELSE s
        e0 == IF lead THEN 0 ELSE -1
    IN  IF lead /\ Len(s0) = 0 THEN Zeros(16)
        ELSE
        LET r == v6Loop(s0, << >>, e0)
        IN  IF ~r.ok \/ Len(r.s) # 0 THEN NilIP
            ELSE IF Len(r.ip) < 16
            THEN IF r.ellipsis < 0 THEN NilIP
                 ELSE Slice(r.ip, 0, r.ellipsis) \o Zeros(16 - Len(r.ip))
                      \o Slice(r.ip, r.ellipsis, Len(r.ip))
            ELSE IF r.ellipsis >= 0 THEN NilIP
            ELSE r.ip

\* net.ParseIP: the first '.' or ':' of s selects the parser
ParseIP(s) ==
    LET dot == IndexByte(s, ".")
        colon == IndexByte(s, ":")
    IN  IF dot < 0 /\ colon < 0 THEN NilIP
        ELSE IF colon < 0 \/ (dot >= 0 /\ dot < colon) THEN parseIPv4(s)
        ELSE parseIPv6(s)

IPv6loopback == Zeros(15) \o <<1>>

\* IsLoopback without the IPv4 case
IsLoopbackV6Only(ip) == ip = IPv6loopback

\* net.IP.IsLoopback: 127.0.0.0/8 for an IPv4 (or IPv4-mapped) address, else ::1
IsLoopback(ip) ==
    IF Len(ip) = 16 /\ Slice(ip, 0, 12) = v4InV6Prefix
    THEN At(ip, 12) = 127
    ELSE ip = IPv6loopback

\* net.SplitHostPort: [ok, host, port]
SplitHostPort(hostport) ==
    LET i == LastIndex(hostport, ":")
        fail == [ok |-> FALSE, host |-> << >>, port |-> << >>]
        end == IndexByte(hostport, "]")
        bracket == At(hostport, 0) = "["
        host == IF bracket THEN Slice(hostport, 1, end) ELSE Slice(hostport, 0, i)
        j == IF bracket THEN 1 ELSE 0
        k == IF bracket THEN end + 1 ELSE 0
    IN  IF i < 0 THEN fail
        ELSE IF bracket /\ end < 0 THEN fail
        ELSE IF bracket /\ end + 1 # i THEN fail
        ELSE IF ~bracket /\ IndexByte(host, ":") >= 0 THEN fail
        ELSE IF IndexByte(Slice(hostport, j, Len(hostport)), "[") >= 0 THEN fail
        ELSE IF IndexByte(Slice(hostport, k, Len(hostport)), "]") >= 0 THEN fail
        ELSE [ok |-> TRUE, host |-> host, port |-> Slice(hostport, i + 1, Len(hostport))]

\* net.JoinHostPort: the host is bracketed when it holds a colon (or a '%')
JoinHostPort(host, port) ==
    IF IndexByte(host, ":") >= 0 \/ IndexByte(host, "%") >= 0
    THEN <<"[">> \o host \o <<"]", ":">> \o port
    ELSE host \o <<":">> \o port

\* ---------------------------------------------------- net/url package model
\* Strings of this model hold letters, digits, '.', ':', '/', ' ', '[', ']';
\* the parser branches for '#', '?', '@' and '%' do not arise.
NoError == ""

NilURL == [isNil |-> TRUE, Scheme |-> << >>, Opaque |-> << >>, Host |-> << >>, Path |-> << >>]

MkURL(scheme, opaque, host, path) ==
    [isNil |-> FALSE, Scheme |-> scheme, Opaque |-> opaque, Host |-> host, Path |-> path]

\* url.validOptionalPort: "" or ":" followed by digits only
validOptionalPort(port) ==
    \/ Len(port) = 0
    \/ At(port, 0) = ":" /\ \A k \in 2..Len(port) : IsDigit(port[k])

SchemeBytes ==
    Range(LowerLetters) \cup Range(UpperLetters) \cup Range(HexDigits) \cup {"+", "-", "."}

\* url.getScheme: [scheme, rest, err]
getScheme(rawURL) ==
    LET i == PrefixLen(rawURL, SchemeBytes)
        none == [scheme |-> << >>, rest |-> rawURL, err |-> NoError]
    IN  IF Len(rawURL) = 0 THEN none
        ELSE IF ~IsLetter(At(rawURL, 0)) /\ At(rawURL, 0) # ":" THEN none
        ELSE IF i = Len(rawURL) THEN none
        ELSE IF At(rawURL, i) # ":" THEN none
        ELSE IF i = 0
        THEN [scheme |-> << >>, rest |-> << >>, err |-> "missing protocol scheme"]
        ELSE [scheme |-> Slice(rawURL, 0, i), rest |-> Slice(rawURL, i + 1, Len(rawURL)),
              err |-> NoError]

\* the host bytes url.unescape accepts in encodeHost mode, within this alphabet
validHostByte(c) == IsLetter(c) \/ IsDigit(c) \/ c \in {".", ":", "-", "+", "[", "]"}

\* url.parseHost (hosts without brackets): [host, err]
parseHost(host) ==
    LET i == LastIndex(host, ":")
    IN  IF i # -1 /\ ~validOptionalPort(Slice(host, i, Len(host)))
        THEN [host |-> << >>, err |-> "invalid port after host"]
        ELSE IF \E k \in 1..Len(host) : ~validHostByte(host[k])
        THEN [host |-> << >>, err |-> "invalid character in host name"]
        ELSE [host |-> host, err |-> NoError]

\* url.Parse: [url, err]
urlParse(rawURL) ==
    LET fail(e) == [url |-> NilURL, err |-> e]
        ok(u) == [url |-> u, err |-> NoError]
        gs == getScheme(rawURL)
        scheme == ToLower(gs.scheme)
        rest == gs.rest
        slash == IndexByte(rest, "/")
        segment == IF slash < 0 THEN rest ELSE Slice(rest, 0, slash)
        afterSlashes == Slice(rest, 2, Len(rest))
        cut == IndexByte(afterSlashes, "/")
        authority == IF cut < 0 THEN afterSlashes ELSE Slice(afterSlashes, 0, cut)
        path == IF cut < 0 THEN << >> ELSE Slice(afterSlashes, cut, Len(afterSlashes))
        h == parseHost(authority)
    IN  IF rawURL = <<"*">> THEN ok(MkURL(<< >>, << >>, << >>, <<"*">>))
        ELSE IF gs.err # NoError THEN fail(gs.err)
        ELSE IF ~HasPrefix(rest, <<"/">>) /\ Len(scheme) # 0
        THEN ok(MkURL(scheme, rest, << >>, << >>))
        ELSE IF ~HasPrefix(rest, <<"/">>) /\ IndexByte(segment, ":") >= 0
        THEN fail("first path segment in URL cannot contain colon")
        ELSE IF (Len(scheme) # 0 \/ ~HasPrefix(rest, <<"/", "/", "/">>))
                /\ HasPrefix(rest, <<"/", "/">>)
        THEN IF h.err # NoError THEN fail(h.err)
             ELSE ok(MkURL(scheme, << >>, h.host, path))
        ELSE ok(MkURL(scheme, << >>, << >>, rest))

\* url.splitHostPort, behind URL.Hostname and URL.Port
urlSplitHostPort(hostPort) ==
    LET colon == LastIndex(hostPort, ":")
        split == colon # -1 /\ validOptionalPort(Slice(hostPort, colon, Len(hostPort)))
        host == IF split THEN Slice(hostPort, 0, colon) ELSE hostPort
        port == IF split THEN Slice(hostPort, colon + 1, Len(hostPort)) ELSE << >>
    IN  [host |-> IF HasPrefix(host, <<"[">>) /\ HasSuffix(host, <<"]">>)
                  THEN Slice(host, 1, Len(host) - 1) ELSE host,
         port |-> port]

Hostname(u) == urlSplitHostPort(u.Host).host

Port(u) == urlSplitHostPort(u.Host).port

\* ------------------------------------------------------------ proxy.go: data
VARIABLES
    call,      \* the entry point that was called: "ProxyForURL" or "useProxy"
    cfg,       \* the Config: HTTPProxy, HTTPSProxy, NoProxy
    reqURL,    \* ProxyForURL's argument
    pc,        \* position in the code
    proxy,     \* ProxyForURL's local proxy
    arg,       \* the addr argument useProxy was called with
    addr,      \* useProxy's local addr (reassigned at line 135)
    patterns,  \* strings.Split(noProxy, ",")
    idx,       \* number of patterns the range loop has taken
    p,         \* the loop variable p
    ret,       \* useProxy's return value
    result     \* ProxyForURL's return values: url, err

vars == <<call, cfg, reqURL, pc, proxy, arg, addr, patterns, idx, p, ret, result>>

http == <<"h", "t", "t", "p">>
https == <<"h", "t", "t", "p", "s">>
socks5 == <<"s", "o", "c", "k", "s", "5">>
localhost == <<"l", "o", "c", "a", "l", "h", "o", "s", "t">>
httpPrefix == <<"h", "t", "t", "p", ":", "/", "/">>

NilError == [isNil |-> TRUE, proxy |-> << >>, cause |-> NoError]

\* fmt.Errorf("invalid proxy address %q: %v", proxy, err)
InvalidProxyAddress(px, cause) == [isNil |-> FALSE, proxy |-> px, cause |-> cause]

portMap(scheme) ==
    IF scheme = http THEN <<"8", "0">>
    ELSE IF scheme = https THEN <<"4", "4", "3">>
    ELSE IF scheme = socks5 THEN <<"1", "0", "8", "0">>
    ELSE << >>

\* bytes >= utf8.RuneSelf that occur in this model
NonASCII == {"é"}

isASCII(s) == \A k \in 1..Len(s) : s[k] \notin NonASCII

\* idna.Lookup.ToASCII on a name that is not ASCII: [v, ok]
idnaToASCII(v) ==
    IF v = <<"é">> THEN [v |-> <<"x", "n", "-", "-", "9", "c", "a">>, ok |-> TRUE]
    ELSE [v |-> << >>, ok |-> FALSE]

idnaASCII(v) == IF isASCII(v) THEN [v |-> v, ok |-> TRUE] ELSE idnaToASCII(v)

canonicalAddr(u) ==
    LET host == Hostname(u)
        r == idnaASCII(host)
        a == IF r.ok THEN r.v ELSE host
        port == IF Len(Port(u)) = 0 THEN portMap(u.Scheme) ELSE Port(u)
    IN  JoinHostPort(a, port)

hasPort(s) == LastIndex(s, ":") > LastIndex(s, "]")

\* lines 136-138 and 145-147: drop the port
StripPort(s) == IF hasPort(s) THEN Slice(s, 0, LastIndex(s, ":")) ELSE s

\* SelectProxy without the test of the request scheme
SelectProxyAnyScheme(c, scheme) ==
    IF Len(c.HTTPSProxy) = 0 THEN c.HTTPProxy ELSE c.HTTPSProxy

\* lines 79-85: the candidate proxy string
SelectProxy(c, scheme) ==
    LET first == IF scheme = https THEN c.HTTPSProxy ELSE << >>
    IN  IF Len(first) = 0 THEN c.HTTPProxy ELSE first

\* line 121
IsLocalhost(host) == host = localhost

\* lines 124-128
IsLoopbackIP(host) == LET ip == ParseIP(host) IN ip # NilIP /\ IsLoopback(ip)

\* line 131
NoProxyIsStar(noProxy) == noProxy = <<"*">>

\* line 135
NormalizeAddr(a) == StripPort(ToLower(TrimSpace(a)))

\* line 141
NormalizePattern(x) == ToLower(TrimSpace(x))

\* line 148
ExactMatch(a, pat) == a = pat

\* EmptyHostPart without the test
NeverEmptyHostPart(pat) == FALSE

\* line 151
EmptyHostPart(pat) == Len(pat) = 0

\* DotPatternMatch without the comparison to p[1:]
DotSuffixOnly(a, pat) == HasSuffix(a, pat)

\* line 155, after p[0] == '.' was read
DotPatternMatch(a, pat) == HasSuffix(a, pat) \/ a = Slice(pat, 1, Len(pat))

\* line 159, the second conjunct
PlainSuffix(a, pat) == HasSuffix(a, pat)

\* line 159, the index of the third conjunct
BoundaryIndex(a, pat) == Len(a) - Len(pat) - 1

\* BoundaryIsDot without the test
BoundaryAnyByte(a, pat) == TRUE

\* line 159, the third conjunct
BoundaryIsDot(a, pat) == At(a, BoundaryIndex(a, pat)) = "."

\* BogusProxy without the test of the scheme
ParseFailedOnly(parsed) == parsed.err # NoError

\* lines 93-96
BogusProxy(parsed) ==
    \/ parsed.err # NoError
    \/ (parsed.url.Scheme # http /\ parsed.url.Scheme # https /\ parsed.url.Scheme # socks5)

\* ResolveProxy complaining about every candidate whose first parse failed
ResolveProxyNoRepairOfErrors(px) ==
    LET first == urlParse(px)
        second == urlParse(httpPrefix \o px)
    IN  IF first.err # NoError
        THEN [url |-> NilURL, err |-> InvalidProxyAddress(px, first.err)]
        ELSE IF BogusProxy(first) /\ second.err = NoError
        THEN [url |-> second.url, err |-> NilError]
        ELSE [url |-> first.url, err |-> NilError]

\* ResolveProxy dropping the URL of an unrecognized scheme that cannot be repaired
ResolveProxyDropsBogus(px) ==
    LET first == urlParse(px)
        second == urlParse(httpPrefix \o px)
    IN  IF BogusProxy(first) /\ second.err = NoError
        THEN [url |-> second.url, err |-> NilError]
        ELSE IF first.err # NoError
        THEN [url |-> NilURL, err |-> InvalidProxyAddress(px, first.err)]
        ELSE IF BogusProxy(first)
        THEN [url |-> NilURL, err |-> NilError]
        ELSE [url |-> first.url, err |-> NilError]

\* lines 92-107: [url, err]
ResolveProxy(px) ==
    LET first == urlParse(px)
        second == urlParse(httpPrefix \o px)
    IN  IF BogusProxy(first) /\ second.err = NoError
        THEN [url |-> second.url, err |-> NilError]
        ELSE IF first.err # NoError
        THEN [url |-> NilURL, err |-> InvalidProxyAddress(px, first.err)]
        ELSE [url |-> first.url, err |-> NilError]

\* ------------------------------------------------------------------ inputs
RECURSIVE StringsOver(_, _)
\* every string over alphabet A of length at most n
StringsOver(A, n) ==
    IF n = 0 THEN {<< >>}
    ELSE LET S == StringsOver(A, n - 1)
         IN  S \cup {Append(t, c) : t \in {x \in S : Len(x) = n - 1}, c \in A}

RECURSIVE ListsOver(_, _)
\* every comma-joined list of exactly n entries of E
ListsOver(E, n) ==
    IF n = 1 THEN E
    ELSE {l \o <<",">> \o e : l \in ListsOver(E, n - 1), e \in E}

dot == <<".">>
com == <<"c", "o", "m">>
example == <<"e", "x", "a", "m", "p", "l", "e">>
foo == <<"f", "o", "o">>
exampleCom == example \o dot \o com
fooCom == foo \o dot \o com
yCom == <<"y">> \o dot \o com
loop4 == <<"1", "2", "7", ".", "0", ".", "0", ".", "1">>
loop4b == <<"1", "2", "7", ".", "0", ".", "0", ".", "2">>
loop6 == <<":", ":", "1">>

SampleHosts ==
    { localhost, loop4, loop4b, loop6, <<":", ":", "2">>,
      <<":", ":", "f", "f", "f", "f", ":">> \o loop4,
      <<"L", "o", "c", "a", "l", "h", "o", "s", "t">>,
      localhost \o dot \o com, <<"1", "2", "8", ".", "0", ".", "0", ".", "1">>,
      exampleCom, foo \o dot \o exampleCom, foo \o exampleCom,
      fooCom, <<"b", "a", "r">> \o dot \o fooCom, <<"x">> \o fooCom,
      yCom, <<"x">> \o dot \o yCom, <<"A", ".", "a">>, <<" ">> }

Hosts == StringsOver({"a", "."}, MaxLen) \cup SampleHosts

\* addresses that are no canonicalAddr: no port, an empty port, spaces
OddAddrs ==
    UNION { {h, JoinHostPort(h, << >>), <<" ">> \o h \o <<":", "1", " ">>} :
            h \in {<< >>, localhost, loop6, <<"a", ".", "a">>, <<".", "a">>} }

Addrs == {JoinHostPort(h, <<"8", "0">>) : h \in Hosts} \cup OddAddrs

SamplePatterns ==
    { <<"*">>, <<":", "1">>, <<" ", "A", ".", "a", " ">>, <<"a", ":", "1">>,
      <<".", "a", ":", "1">>, <<".", ":", "1">>, <<"[", ":", ":", "2", "]">>,
      localhost, loop4, exampleCom, dot \o exampleCom,
      <<"a", "m", "p", "l", "e">> \o dot \o com, fooCom, dot \o fooCom, dot \o yCom }

ListEntries == { <<"a">>, <<".", "a">>, <<":", "1">>, <<" ", "A", ".", "a">>, << >> }

NoProxies ==
    StringsOver({"a", "."}, MaxLen) \cup SamplePatterns
    \cup UNION {ListsOver(ListEntries, n) : n \in 2..MaxPatterns}

SampleProxies ==
    { httpPrefix \o <<"a">>, https \o <<":", "/", "/", "a">>,
      socks5 \o <<":", "/", "/", "a">>, <<"f", "t", "p", ":", "/", "/", "a">>,
      <<"H", "T", "T", "P", ":", "/", "/", "a">>, <<"a", ".", "b", ":", "1">>,
      loop4 \o <<":", "8">>, <<"a", ".", "b">> }

Proxies == StringsOver({"a", ":", "/", " "}, MaxProxyLen) \cup SampleProxies

HTTPSProxies == { << >>, https \o <<":", "/", "/", "b">>, <<":", "b">> }

ReqHosts ==
    { << >>, localhost, localhost \o <<":", "8">>, loop4, <<"[">> \o loop6 \o <<"]">>,
      <<"[">> \o loop6 \o <<"]", ":", "8">>, exampleCom, yCom, <<"x">> \o dot \o yCom,
      <<"é">> }

ReqSchemes == { http, https, <<"f", "t", "p">> }

ReqNoProxies ==
    { << >>, <<"*">>, <<":", "1">>, dot \o yCom, exampleCom,
      <<"x", "n", "-", "-", "9", "c", "a">> }

\* ------------------------------------------------------------------ actions
Init ==
    /\ \/ /\ call = "useProxy"
          /\ pc = "useProxy"
          /\ arg \in Addrs
          /\ addr = arg
          /\ cfg \in [HTTPProxy : {<< >>}, HTTPSProxy : {<< >>}, NoProxy : NoProxies]
          /\ reqURL = NilURL
       \/ /\ call = "ProxyForURL"
          /\ pc = "ProxyForURL"
          /\ arg = << >>
          /\ addr = << >>
          /\ cfg \in [HTTPProxy : Proxies, HTTPSProxy : HTTPSProxies, NoProxy : ReqNoProxies]
          /\ reqURL \in {MkURL(sc, << >>, h, << >>) : sc \in ReqSchemes, h \in ReqHosts}
    /\ proxy = << >>
    /\ patterns = << >>
    /\ idx = 0
    /\ p = << >>
    /\ ret = TRUE
    /\ result = [url |-> NilURL, err |-> NilError]

\* a return statement of useProxy
Return(v) ==
    /\ ret' = v
    /\ pc' = IF call = "ProxyForURL" THEN "checkUseProxy" ELSE "done"

\* lines 79-88: choose the candidate; none configured means no proxy
ChooseProxy ==
    /\ pc = "ProxyForURL"
    /\ proxy' = SelectProxy(cfg, reqURL.Scheme)
    /\ pc' = IF Len(proxy') = 0 THEN "done" ELSE "canonicalAddr"
    /\ UNCHANGED <<call, cfg, reqURL, arg, addr, patterns, idx, p, ret, result>>

\* line 89: the call cfg.useProxy(canonicalAddr(reqURL))
CallUseProxy ==
    /\ pc = "canonicalAddr"
    /\ arg' = canonicalAddr(reqURL)
    /\ addr' = arg'
    /\ pc' = "useProxy"
    /\ UNCHANGED <<call, cfg, reqURL, proxy, patterns, idx, p, ret, result>>

\* lines 114-138: the checks ahead of the pattern loop
UseProxyEntry ==
    /\ pc = "useProxy"
    /\ LET sp == SplitHostPort(addr)
       IN  IF Len(addr) = 0 THEN Return(TRUE) /\ UNCHANGED <<addr, patterns>>
           ELSE IF ~sp.ok THEN Return(FALSE) /\ UNCHANGED <<addr, patterns>>
           ELSE IF IsLocalhost(sp.host) THEN Return(FALSE) /\ UNCHANGED <<addr, patterns>>
           ELSE IF IsLoopbackIP(sp.host) THEN Return(FALSE) /\ UNCHANGED <<addr, patterns>>
           ELSE IF NoProxyIsStar(cfg.NoProxy) THEN Return(FALSE) /\ UNCHANGED <<addr, patterns>>
           ELSE /\ addr' = NormalizeAddr(addr)
                /\ patterns' = Split(cfg.NoProxy, ",")
                /\ pc' = "loop"
                /\ UNCHANGED ret
    /\ UNCHANGED <<call, cfg, reqURL, proxy, arg, idx, p, result>>

\* lines 140-147: take the next pattern, skip it when it is empty after trimming
LoopNext ==
    /\ pc = "loop"
    /\ idx < Len(patterns)
    /\ idx' = idx + 1
    /\ LET t == NormalizePattern(patterns[idx + 1])
       IN  IF Len(t) = 0
           THEN pc' = "loop" /\ p' = t
           ELSE pc' = "compare" /\ p' = StripPort(t)
    /\ UNCHANGED <<call, cfg, reqURL, proxy, arg, addr, patterns, ret, result>>

\* line 164: no pattern matched
LoopExit ==
    /\ pc = "loop"
    /\ idx = Len(patterns)
    /\ Return(TRUE)
    /\ UNCHANGED <<call, cfg, reqURL, proxy, arg, addr, patterns, idx, p, result>>

\* lines 148-154: exact match, then the entry without a host part
Compare ==
    /\ pc = "compare"
    /\ IF ExactMatch(addr, p) THEN Return(FALSE)
       ELSE IF EmptyHostPart(p) THEN pc' = "loop" /\ UNCHANGED ret
       ELSE pc' = "readP0" /\ UNCHANGED ret
    /\ UNCHANGED <<call, cfg, reqURL, proxy, arg, addr, patterns, idx, p, result>>

\* line 155 and the first two conjuncts of line 159: both read p[0]
ReadP0 ==
    /\ pc = "readP0"
    /\ IF Len(p) = 0 THEN pc' = "panic" /\ UNCHANGED ret
       ELSE IF At(p, 0) = "." /\ DotPatternMatch(addr, p) THEN Return(FALSE)
       ELSE IF At(p, 0) # "." /\ PlainSuffix(addr, p) THEN pc' = "readAddr" /\ UNCHANGED ret
       ELSE pc' = "loop" /\ UNCHANGED ret
    /\ UNCHANGED <<call, cfg, reqURL, proxy, arg, addr, patterns, idx, p, result>>

\* line 159, third conjunct: the read of addr[len(addr)-len(p)-1]
ReadAddr ==
    /\ pc = "readAddr"
    /\ LET k == BoundaryIndex(addr, p)
       IN  IF k < 0 \/ k >= Len(addr) THEN pc' = "panic" /\ UNCHANGED ret
           ELSE IF BoundaryIsDot(addr, p) THEN Return(FALSE)
           ELSE pc' = "loop" /\ UNCHANGED ret
    /\ UNCHANGED <<call, cfg, reqURL, proxy, arg, addr, patterns, idx, p, result>>

\* lines 89-91: an excluded request gets no proxy
CheckUseProxy ==
    /\ pc = "checkUseProxy"
    /\ pc' = IF ret THEN "parse" ELSE "done"
    /\ UNCHANGED <<call, cfg, reqURL, proxy, arg, addr, patterns, idx, p, ret, result>>

\* lines 92-107: parse the candidate, repair it, or complain
ParseProxy ==
    /\ pc = "parse"
    /\ result' = ResolveProxy(proxy)
    /\ pc' = "done"
    /\ UNCHANGED <<call, cfg, reqURL, proxy, arg, addr, patterns, idx, p, ret>>

Next ==
    \/ ChooseProxy
    \/ CallUseProxy
    \/ UseProxyEntry
    \/ LoopNext
    \/ LoopExit
    \/ Compare
    \/ ReadP0
    \/ ReadAddr
    \/ CheckUseProxy
    \/ ParseProxy

Spec == Init /\ [][Next]_vars

\* ------------------------------------------------------------------ claims
\* useProxy has returned (to the test's export or into ProxyForURL)
UseProxyReturned ==
    \/ pc \in {"checkUseProxy", "parse"}
    \/ pc = "done" /\ (call = "useProxy" \/ Len(proxy) > 0)

\* ProxyForURL has returned
ProxyForURLReturned == call = "ProxyForURL" /\ pc = "done"

NoProxyResult == result.url.isNil /\ result.err.isNil

ArgSplit == IF Len(arg) = 0 THEN [ok |-> FALSE, host |-> << >>, port |-> << >>]
            ELSE SplitHostPort(arg)

LoopbackNames == {localhost, loop4, loop4b, loop6}

\* the address useProxy was given names localhost or a loopback IP
LoopbackArg ==
    ArgSplit.ok /\ (ArgSplit.host \in LoopbackNames \/ IsLoopbackIP(ArgSplit.host))

\* C1: for every NoProxy value and every port, useProxy returns false for an
\* address whose host is exactly "localhost" or a loopback IP (127.0.0.0/8,
\* ::1), and ProxyForURL then returns (nil, nil) whatever proxies are set.
C1_LoopbackNeverProxied ==
    /\ (UseProxyReturned /\ LoopbackArg) => ret = FALSE
    /\ (ProxyForURLReturned /\ Hostname(reqURL) \in LoopbackNames) => NoProxyResult

C1_Witness ==
    /\ ProxyForURLReturned
    /\ Hostname(reqURL) = loop6
    /\ cfg.NoProxy = <<":", "1">>
    /\ Len(proxy) > 0
    /\ ret = FALSE
    /\ NoProxyResult

\* C2: the candidate is HTTPSProxy exactly when the request scheme is "https"
\* and HTTPSProxy is non-empty, HTTPProxy in every other case; an empty
\* candidate gives (nil, nil).
C2_CandidateSelection ==
    (call = "ProxyForURL" /\ pc # "ProxyForURL") =>
        /\ proxy = IF reqURL.Scheme = https /\ cfg.HTTPSProxy # << >>
                   THEN cfg.HTTPSProxy ELSE cfg.HTTPProxy
        /\ (reqURL.Scheme # https => proxy = cfg.HTTPProxy)
        /\ (proxy = << >> => pc = "done" /\ NoProxyResult)

C2_Witness ==
    /\ ProxyForURLReturned
    /\ reqURL.Scheme = https
    /\ cfg.HTTPProxy = <<"a", ".", "b">>
    /\ cfg.HTTPSProxy = https \o <<":", "/", "/", "b">>
    /\ result.url.Host = <<"b">>
    /\ result.url.Scheme = https

\* C10: useProxy never indexes out of range and returns a boolean: p is
\* non-empty whenever p[0] is read, len(addr) > len(p) whenever
\* addr[len(addr)-len(p)-1] is read, and the loop stays within the pattern list
\* until useProxy returns.
C10_NoIndexOutOfRange ==
    /\ pc # "panic"
    /\ (pc = "readP0" => Len(p) > 0)
    /\ (pc = "readAddr" => Len(addr) > Len(p) /\ BoundaryIndex(addr, p) >= 0)
    /\ idx <= Len(patterns)
    /\ (UseProxyReturned => ret \in BOOLEAN)
    /\ (pc = "loop" => idx <= Len(patterns))
    /\ pc \in {"ProxyForURL", "canonicalAddr", "useProxy", "loop", "compare",
               "readP0", "readAddr", "checkUseProxy", "parse", "done"}

C10_Witness ==
    /\ pc = "readAddr"
    /\ BoundaryIndex(addr, p) = 0
    /\ \E k \in 1..Len(patterns) : patterns[k] = <<":", "1">>

\* useProxy returned from the pattern loop or after it (lines 140-164)
ReturnedFromLoop == UseProxyReturned /\ Len(patterns) > 0

StartsWithDot(q) == Len(q) > 0 /\ q[1] = "."

\* the comparison form of the k-th NoProxy entry: lower-cased, trimmed, port stripped
ComparedPattern(k) == StripPort(NormalizePattern(patterns[k]))

\* an entry the loop takes as a pattern: not empty once trimmed (line 142)
IsEntry(k) == Len(TrimSpace(patterns[k])) > 0

\* the rule for a pattern without a leading dot: equal, or a suffix behind a dot
PlainRule(h, q) ==
    \/ h = q
    \/ /\ Len(h) > Len(q)
       /\ SubSeq(h, Len(h) - Len(q) + 1, Len(h)) = q
       /\ h[Len(h) - Len(q)] = "."

\* the rule for a pattern with a leading dot: a suffix, or equal without the dot
DotRule(h, q) ==
    \/ Len(h) >= Len(q) /\ SubSeq(h, Len(h) - Len(q) + 1, Len(h)) = q
    \/ h = Tail(q)

C5_LeadingDotSubdomainsOnly ==
    (ProxyForURLReturned /\ cfg.NoProxy = dot \o yCom /\ Len(proxy) > 0) =>
        /\ Hostname(reqURL) = <<"x">> \o dot \o yCom => (ret = FALSE /\ NoProxyResult)
        /\ Hostname(reqURL) = yCom => (ret = TRUE /\ ~NoProxyResult)

\* the candidate fails to parse as it stands and behind "http://"
Unparsable(px) == urlParse(px).err # NoError /\ urlParse(httpPrefix \o px).err # NoError

RecognizedScheme(sc) == sc \in {http, https, socks5}

\* the candidate parses, with a scheme outside http, https, socks5, and does
\* not parse behind "http://"
UnrepairableScheme(px) ==
    /\ urlParse(px).err = NoError
    /\ ~RecognizedScheme(urlParse(px).url.Scheme)
    /\ urlParse(httpPrefix \o px).err # NoError

C8_Repair ==
    (ProxyForURLReturned /\ Len(proxy) > 0 /\ ret = TRUE) =>
        LET first == urlParse(proxy)
            second == urlParse(httpPrefix \o proxy)
        IN  /\ ((first.err # NoError \/ ~RecognizedScheme(first.url.Scheme))
                 /\ second.err = NoError)
                => (result.url = second.url /\ result.url.Scheme = http /\ result.err.isNil)
            /\ (first.err = NoError /\ RecognizedScheme(first.url.Scheme))
                => (result.url = first.url /\ result.err.isNil)

C8_Witness ==
    /\ ProxyForURLReturned
    /\ proxy = loop4 \o <<":", "8">>
    /\ result.url.Scheme = http
    /\ result.url.Host = loop4 \o <<":", "8">>
    /\ result.err.isNil

\* C9: with NoProxy ":1" the entry is ignored: useProxy returns true for
\* every address that reaches the pattern loop (one that splits into host
\* and port and is neither localhost nor a loopback IP).
C9_PortOnlyEntryIgnored ==
    (UseProxyReturned /\ cfg.NoProxy = <<":", "1">> /\ ArgSplit.ok /\ ~LoopbackArg)
        => ret = TRUE

====
